---------------------------- MODULE Spec2Model ----------------------------
(***************************************************************************)
(* Model of server/services/guardrails/validation/pydantic_validator.py.   *)
(*                                                                         *)
(* The module defines a result class, ValidationResult, and a validator    *)
(* with two static methods.  Python lists are objects with identity, so    *)
(* the model keeps a heap of lists and lets a record field hold either a   *)
(* reference to a list or a scalar value.  The callers of the module are   *)
(* the environment: they build lists, pass them as arguments and append    *)
(* to every list they can reach (their own and those of returned results). *)
(*                                                                         *)
(* The two validate methods touch only constants and objects they          *)
(* allocate themselves, so a call is one atomic step; calls by several     *)
(* callers interleave with each other and with the callers' list updates.  *)
(***************************************************************************)
EXTENDS Naturals, Sequences, FiniteSets

\* Bounds of the model.
MaxResults == 2      \* ValidationResult objects constructed in a run
MaxLists == 4        \* list objects allocated in a run
MaxHeld == 1         \* lists the callers build themselves
MaxElems == 2        \* elements held by all lists together

\* The callers of the module.  They share one heap, and no step depends on
\* which of them takes it.
Callers == {"c1", "c2"}

VARIABLES
    lists,      \* heap of list objects: lists[i] is the content of list i
    results,    \* heap of ValidationResult objects, in construction order
    calls,      \* for results[i], the call that constructed it
    held,       \* ids of the lists the callers built themselves
    last        \* the step taken last

vars == <<lists, results, calls, held, last>>

---------------------------------------------------------------------------
\* Python values.  A list is held by reference (its id in the heap).

None == [tag |-> "none", id |-> 0, s |-> ""]
True == [tag |-> "bool", id |-> 1, s |-> ""]
False == [tag |-> "bool", id |-> 0, s |-> ""]
Str(x) == [tag |-> "str", id |-> 0, s |-> x]
Ref(i) == [tag |-> "list", id |-> i, s |-> ""]
\* No value: the payload of a step that passes none.
Absent == [tag |-> "absent", id |-> 0, s |-> ""]

\* The lists with ids in S, as values.
Refs(S) == {Ref(i) : i \in S}

\* bool(v), as the `or` operator tests its left operand.
Truthy(ls, v) ==
    CASE v.tag = "none" -> FALSE
      [] v.tag = "bool" -> v.id = 1
      [] v.tag = "str" -> v.s # ""
      [] v.tag = "list" -> Len(ls[v.id]) > 0

\* What a reader of value v sees: a list's elements in order, or the scalar.
Deref(ls, v) ==
    IF v.tag = "list"
    THEN [tag |-> "list", id |-> 0, s |-> "", items |-> ls[v.id]]
    ELSE [tag |-> v.tag, id |-> v.id, s |-> v.s, items |-> <<>>]

EmptySeq == [tag |-> "list", id |-> 0, s |-> "", items |-> <<>>]

---------------------------------------------------------------------------
\* ValidationResult.__init__

\* Defaults of the signature: valid=True, errors=None, warnings=None.
\* Variant: the flag defaults to False.
DefaultValid_False == False

DefaultValid == True
DefaultErrors == None
DefaultWarnings == None

\* Variant: the argument is stored as it comes (self.errors = errors).
OrNewList_Raw(ls, v) == [val |-> v, lists |-> ls]

\* Variant: one default list serves every call (a mutable default argument).
OrNewList_SharedDefault(ls, v) ==
    IF Truthy(ls, v)
    THEN [val |-> v, lists |-> ls]
    ELSE IF ls = <<>>
         THEN [val |-> Ref(1), lists |-> <<<<>>>>]
         ELSE [val |-> Ref(1), lists |-> ls]

\* Variant: only None is replaced (errors if errors is not None else []).
OrNewList_IfNone(ls, v) ==
    IF v # None
    THEN [val |-> v, lists |-> ls]
    ELSE [val |-> Ref(Len(ls) + 1), lists |-> Append(ls, <<>>)]

\* `v or []`: v itself when it is truthy, else a newly allocated empty list.
OrNewList(ls, v) ==
    IF Truthy(ls, v)
    THEN [val |-> v, lists |-> ls]
    ELSE [val |-> Ref(Len(ls) + 1), lists |-> Append(ls, <<>>)]

\* Variant: warnings is stored without the `or []`.
ValidationResult_RawWarnings(ls, valid, errors, warnings) ==
    LET e == OrNewList(ls, errors)
    IN  [obj |-> [valid |-> valid, errors |-> e.val, warnings |-> warnings],
         lists |-> e.lists]

\* Variant: the flag is cross-checked (self.valid = valid and not errors).
ValidationResult_CrossChecked(ls, valid, errors, warnings) ==
    LET e == OrNewList(ls, errors)
        w == OrNewList(e.lists, warnings)
    IN  [obj |-> [valid |-> IF Truthy(ls, errors) THEN False ELSE valid,
                  errors |-> e.val, warnings |-> w.val],
         lists |-> w.lists]

\* The constructor body, run on list heap ls: the new object and the heap.
ValidationResult(ls, valid, errors, warnings) ==
    LET e == OrNewList(ls, errors)
        w == OrNewList(e.lists, warnings)
    IN  [obj |-> [valid |-> valid, errors |-> e.val, warnings |-> w.val],
         lists |-> w.lists]

---------------------------------------------------------------------------
\* PydanticValidator

\* Variant: a None payload is rejected.
validate_agent_input_RejectsNone(ls, input_data) ==
    ValidationResult(ls, IF input_data = None THEN False ELSE True,
                     DefaultErrors, DefaultWarnings)

\* Variant: a payload that holds no data is rejected.
validate_agent_output_RejectsEmpty(ls, output_data) ==
    ValidationResult(ls, IF Truthy(ls, output_data) THEN True ELSE False,
                     DefaultErrors, DefaultWarnings)

\* Variant: a list payload is emptied while it is read.
validate_agent_input_Consumes(ls, input_data) ==
    ValidationResult(IF input_data.tag = "list"
                     THEN [ls EXCEPT ![input_data.id] = <<>>]
                     ELSE ls,
                     True, DefaultErrors, DefaultWarnings)

validate_agent_input(ls, input_data) ==
    ValidationResult(ls, True, DefaultErrors, DefaultWarnings)

validate_agent_output(ls, output_data) ==
    ValidationResult(ls, True, DefaultErrors, DefaultWarnings)

---------------------------------------------------------------------------
\* The state machine.

\* The value of last before any step.
NoCall == [kind |-> "init", idx |-> 0, payload |-> Absent, nargs |-> 0]

Init ==
    /\ lists = <<>>
    /\ results = <<>>
    /\ calls = <<>>
    /\ held = {}
    /\ last = NoCall

\* The entry of calls for a construction: the entry point op the caller used,
\* the arguments __init__ received, and whether errors and warnings were
\* truthy when it received them.
Call(op, v, e, w) ==
    [op |-> op, valid |-> v, errors |-> e, warnings |-> w,
     errorsGiven |-> Truthy(lists, e), warningsGiven |-> Truthy(lists, w)]

\* A call returns: r is the constructed object with the heap it left, call
\* the arguments the object was constructed from.  The run stops where the
\* bounds leave no room for the object or for the lists it allocated.
Return(r, call, l) ==
    /\ Len(results) < MaxResults
    /\ Len(r.lists) <= MaxLists
    /\ lists' = r.lists
    /\ results' = Append(results, r.obj)
    /\ calls' = Append(calls, call)
    /\ last' = l
    /\ UNCHANGED held

\* A caller calls PydanticValidator.validate_agent_input(p).
CallValidateInput(c, p) ==
    Return(validate_agent_input(lists, p),
           Call("validate_agent_input", True, DefaultErrors, DefaultWarnings),
           [kind |-> "call", idx |-> Len(results) + 1, payload |-> p, nargs |-> 1])

\* A caller calls PydanticValidator.validate_agent_output(p).
CallValidateOutput(c, p) ==
    Return(validate_agent_output(lists, p),
           Call("validate_agent_output", True, DefaultErrors, DefaultWarnings),
           [kind |-> "call", idx |-> Len(results) + 1, payload |-> p, nargs |-> 1])

\* A caller constructs ValidationResult(v, e, w) itself.
CallConstructor(c, v, e, w) ==
    Return(ValidationResult(lists, v, e, w),
           Call("ValidationResult", v, e, w),
           [kind |-> "call", idx |-> Len(results) + 1, payload |-> Absent, nargs |-> 3])

\* A caller constructs ValidationResult() with no argument: every parameter
\* takes its default.
CallConstructorNoArgs(c) ==
    Return(ValidationResult(lists, DefaultValid, DefaultErrors, DefaultWarnings),
           Call("ValidationResult", DefaultValid, DefaultErrors, DefaultWarnings),
           [kind |-> "call", idx |-> Len(results) + 1, payload |-> Absent, nargs |-> 0])

\* The number of elements in the lists of heap ls.
RECURSIVE Used(_)
Used(ls) == IF ls = <<>> THEN 0 ELSE Len(Head(ls)) + Used(Tail(ls))

\* A caller builds a list of its own.
NewList(c, content) ==
    /\ Len(lists) < MaxLists
    /\ Cardinality(held) < MaxHeld
    /\ Used(lists) + Len(content) <= MaxElems
    /\ lists' = Append(lists, content)
    /\ held' = held \cup {Len(lists) + 1}
    /\ last' = [NoCall EXCEPT !.kind = "new", !.idx = Len(lists) + 1]
    /\ UNCHANGED <<results, calls>>

\* A caller appends to a list it can reach: l.append(x).
AppendTo(c, l, x) ==
    /\ l \in 1..Len(lists)
    /\ Used(lists) < MaxElems
    /\ lists' = [lists EXCEPT ![l] = Append(@, x)]
    /\ last' = [NoCall EXCEPT !.kind = "append", !.idx = l]
    /\ UNCHANGED <<results, calls, held>>

\* The inputs the callers draw from.
Contents == {<<>>, <<"e1">>}
Elems == {"e2"}
Payloads == {None, Str("bad")} \cup Refs(held)
ValidArgs == {True, False}
ListArgs == {None} \cup Refs(held)

Next ==
    \/ \E c \in Callers, p \in Payloads : CallValidateInput(c, p)
    \/ \E c \in Callers, p \in Payloads : CallValidateOutput(c, p)
    \/ \E c \in Callers, v \in ValidArgs, e \in ListArgs, w \in ListArgs :
          CallConstructor(c, v, e, w)
    \/ \E c \in Callers : CallConstructorNoArgs(c)
    \/ \E c \in Callers, content \in Contents : NewList(c, content)
    \/ \E c \in Callers, l \in 1..Len(lists), x \in Elems : AppendTo(c, l, x)

Spec == Init /\ [][Next]_vars

---------------------------------------------------------------------------
\* Vocabulary of the properties.

ValidateOps == {"validate_agent_input", "validate_agent_output"}

\* What a reader of record r sees in heap ls.
View(ls, r) ==
    [valid |-> r.valid, errors |-> Deref(ls, r.errors),
     warnings |-> Deref(ls, r.warnings)]

\* The step taken last was a call through entry point op; it returned
\* results[last.idx].
JustReturned(op) == last.kind = "call" /\ calls[last.idx].op = op
Returned == results[last.idx]
ReturnedView == View(lists, Returned)

\* The list ids record r refers to.
ListsOf(r) ==
    {v.id : v \in {x \in {r.errors, r.warnings} : x.tag = "list"}}

\* List value v of the record returned last is a new list: no other record
\* refers to it and no caller built it.
Fresh(v) ==
    /\ v.tag = "list"
    /\ v.id \notin held
    /\ \A j \in 1..Len(results) : j # last.idx => v.id \notin ListsOf(results[j])

\* This step is a call of one of the two validate methods.
ValidateStep ==
    /\ last'.kind = "call"
    /\ Len(results') = Len(results) + 1
    /\ calls'[Len(results')].op \in ValidateOps

---------------------------------------------------------------------------
\* C1: whatever the payload (None, a string, an empty or non-empty list),
\* the record validate_agent_input returns has valid = True.
C1_InputAlwaysValid ==
    JustReturned("validate_agent_input") => Returned.valid = True

C1_Witness ==
    /\ JustReturned("validate_agent_input")
    /\ last.payload = None
    /\ Returned.valid = True

\* C2: whatever the payload, the record validate_agent_output returns has
\* valid = True.
C2_OutputAlwaysValid ==
    JustReturned("validate_agent_output") => Returned.valid = True

C2_Witness ==
    /\ JustReturned("validate_agent_output")
    /\ last.payload.tag = "list"
    /\ lists[last.payload.id] = <<>>
    /\ Returned.valid = True

\* C3: the record either validate method returns has errors equal to the
\* empty sequence and warnings equal to the empty sequence.
C3_NoErrorsNoWarnings ==
    (\E op \in ValidateOps : JustReturned(op)) =>
        /\ ReturnedView.errors = EmptySeq
        /\ ReturnedView.warnings = EmptySeq

C3_Witness ==
    /\ JustReturned("validate_agent_input")
    /\ last.payload = Str("bad")
    /\ ReturnedView.errors = EmptySeq
    /\ ReturnedView.warnings = EmptySeq

\* C4: no constructed record holds None in errors or in warnings, and a
\* record constructed with errors (warnings) None holds the empty sequence
\* there when the constructor returns.
C4_AbsentNormalized ==
    /\ \A i \in 1..Len(results) :
          results[i].errors # None /\ results[i].warnings # None
    /\ last.kind = "call" =>
          /\ calls[last.idx].errors = None => ReturnedView.errors = EmptySeq
          /\ calls[last.idx].warnings = None => ReturnedView.warnings = EmptySeq

C4_Witness ==
    /\ JustReturned("ValidationResult")
    /\ last.nargs = 3
    /\ calls[last.idx].errors.tag = "list"
    /\ calls[last.idx].warnings = None
    /\ ReturnedView.warnings = EmptySeq

\* C5: ValidationResult() with no argument yields valid = True, errors = the
\* empty sequence, warnings = the empty sequence.
C5_NoArgumentDefaults ==
    (JustReturned("ValidationResult") /\ last.nargs = 0) =>
        ReturnedView = [valid |-> True, errors |-> EmptySeq, warnings |-> EmptySeq]

C5_Witness ==
    /\ JustReturned("ValidationResult")
    /\ last.nargs = 0
    /\ ReturnedView = [valid |-> True, errors |-> EmptySeq, warnings |-> EmptySeq]

\* C6: calls of the validate methods do not interfere.  Each returns a
\* record of its own (valid = True, errors and warnings empty, both lists
\* new); no two records the validate methods returned share a list; and an
\* append a caller makes to a list of one of them leaves every other one
\* looking as it did.
C6_EachCallFresh ==
    (\E op \in ValidateOps : JustReturned(op)) =>
        /\ ReturnedView = [valid |-> True, errors |-> EmptySeq, warnings |-> EmptySeq]
        /\ Fresh(Returned.errors)
        /\ Fresh(Returned.warnings)

C6_NoSharedList ==
    \A i, j \in 1..Len(results) :
        (i # j /\ calls[i].op \in ValidateOps /\ calls[j].op \in ValidateOps) =>
            ListsOf(results[i]) \cap ListsOf(results[j]) = {}

C6_ChangeStaysLocal ==
    \A i, j \in 1..Len(results) :
        ( /\ i # j
          /\ calls[i].op \in ValidateOps
          /\ calls[j].op \in ValidateOps
          /\ last'.kind = "append"
          /\ last'.idx \in ListsOf(results[i]) ) =>
            View(lists', results'[j]) = View(lists, results[j])

C6_NoInterference ==
    /\ [](C6_EachCallFresh /\ C6_NoSharedList)
    /\ [][C6_ChangeStaysLocal]_vars

C6_Witness ==
    /\ Len(results) = 2
    /\ calls[1].op = "validate_agent_input"
    /\ calls[2].op = "validate_agent_output"
    /\ last.kind = "append"
    /\ last.idx \in ListsOf(results[1])
    /\ View(lists, results[1]).errors # EmptySeq
    /\ View(lists, results[2]).errors = EmptySeq
    /\ View(lists, results[2]).warnings = EmptySeq

\* C7: once constructed, a record's valid, errors and warnings read the
\* same in every later state.
C7_Immutable ==
    [][\A i \in 1..Len(results) :
          View(lists', results'[i]) = View(lists, results[i])]_vars

\* C8: the validate methods are total and free of side effects.  Every
\* payload gets a record back, and the call leaves every list that existed
\* (the payload among them), every record that existed and the callers'
\* own lists as they were.
C8_Total ==
    (Len(results) < MaxResults /\ Len(lists) + 2 <= MaxLists) =>
        \A c \in Callers, p \in Payloads :
            /\ ENABLED CallValidateInput(c, p)
            /\ ENABLED CallValidateOutput(c, p)

C8_Frame ==
    ValidateStep =>
        /\ Len(lists') >= Len(lists)
        /\ SubSeq(lists', 1, Len(lists)) = lists
        /\ SubSeq(results', 1, Len(results)) = results
        /\ SubSeq(calls', 1, Len(calls)) = calls
        /\ held' = held

C8_TotalNoSideEffect == []C8_Total /\ [][C8_Frame]_vars

C8_Witness ==
    /\ JustReturned("validate_agent_input")
    /\ last.idx = 2
    /\ last.payload.tag = "list"
    /\ lists[last.payload.id] = <<"e1">>
    /\ \E i \in ListsOf(results[1]) : lists[i] # <<>>

\* C9: the constructor does not cross-check valid against errors: with
\* valid = True and a non-empty list E as errors it returns a record with
\* valid = True whose errors is E, element for element; while every record
\* a validate method returns has valid = (errors is empty).
C9_NoCrossCheck ==
    /\ ( /\ JustReturned("ValidationResult")
         /\ calls[last.idx].valid = True
         /\ calls[last.idx].errorsGiven
         /\ calls[last.idx].errors.tag = "list" ) =>
            /\ Returned.valid = True
            /\ ReturnedView.errors = Deref(lists, calls[last.idx].errors)
            /\ ReturnedView.errors # EmptySeq
    /\ (\E op \in ValidateOps : JustReturned(op)) =>
            ((Returned.valid = True) <=> (ReturnedView.errors = EmptySeq))

C9_Witness ==
    /\ JustReturned("ValidationResult")
    /\ Returned.valid = True
    /\ ReturnedView.errors.items = <<"e1", "e2">>

\* C10: a non-empty list passed as errors (warnings) is stored by reference:
\* the record shows the list's elements in every later state, appended ones
\* included.  When the argument is absent, None or an empty list, the field
\* holds a new empty list that no other record and no caller shares.
C10_ByReference ==
    \A i \in 1..Len(results) :
        /\ (calls[i].errorsGiven /\ calls[i].errors.tag = "list") =>
              /\ results[i].errors = calls[i].errors
              /\ View(lists, results[i]).errors = Deref(lists, calls[i].errors)
        /\ (calls[i].warningsGiven /\ calls[i].warnings.tag = "list") =>
              /\ results[i].warnings = calls[i].warnings
              /\ View(lists, results[i]).warnings = Deref(lists, calls[i].warnings)

C10_FreshWhenEmpty ==
    last.kind = "call" =>
        /\ ~calls[last.idx].errorsGiven =>
              ReturnedView.errors = EmptySeq /\ Fresh(Returned.errors)
        /\ ~calls[last.idx].warningsGiven =>
              ReturnedView.warnings = EmptySeq /\ Fresh(Returned.warnings)

C10_ReferenceOrFresh == C10_ByReference /\ C10_FreshWhenEmpty

\* A caller appended to the list E it had passed, and the record shows it.
C10_Witness ==
    /\ last.kind = "append"
    /\ last.idx \in held
    /\ \E i \in 1..Len(results) :
          /\ calls[i].errorsGiven
          /\ calls[i].errors = Ref(last.idx)
          /\ View(lists, results[i]).errors.items = <<"e1", "e2">>

\* An empty list E was passed, and the record holds another list.
C10_WitnessEmpty ==
    /\ JustReturned("ValidationResult")
    /\ calls[last.idx].errors.tag = "list"
    /\ ~calls[last.idx].errorsGiven
    /\ Returned.errors # calls[last.idx].errors

=============================================================================
